---- MODULE Spec2Model ----
(***************************************************************************)
(* Session booking and subscription entitlement of the gym backend         *)
(* (client.py, admin.py, models.py).                                       *)
(*                                                                         *)
(* Instants are whole minutes since midnight of day 0 (UTC).  A request    *)
(* datetime keeps its wall-clock minutes, its seconds, its microseconds    *)
(* and its UTC offset (tzinfo, utcoffset in minutes) apart, as the validator and the handler read them    *)
(* apart.  Every handler is two steps: the reads and checks up to the      *)
(* last query, then the writes and the commit.                             *)
(*                                                                         *)
(* Spec is the whole system, the steps of the workers interleaved freely   *)
(* (several server workers on one database).  The checked specifications   *)
(* are its parts: purchase_subscription reads and writes users,            *)
(* subscriptions and purchases only, book_session and complete_session     *)
(* write sessions and visits only, so the subscription ledger              *)
(* (PurchaseSpec) and the session engine (started right after a client's   *)
(* first purchase) are explored apart.  The Serial variants start a        *)
(* request only when no other is in flight (one event loop, the handlers   *)
(* have no await); SessionRaceSpec interleaves the workers' steps freely   *)
(* at one instant of the clock.  ClientSerialSpec runs all four client     *)
(* handlers from the database in which the first entitlement has run out,  *)
(* TrainerAdminSpec adds the admin's renames and deletions of trainers to  *)
(* the session engine.                                                     *)
(***************************************************************************)
EXTENDS Integers, Sequences, FiniteSets, TLC

VARIABLES now, trainers, subscriptions, users, sessions, visits,
          purchases, pc, local, last

vars == <<now, trainers, subscriptions, users, sessions, visits,
          purchases, pc, local, last>>

db == <<trainers, subscriptions, users, sessions, visits, purchases>>

(* ------------------------------ bounds --------------------------------- *)
MaxSessions == 2
MaxPurchases == 2
MaxPlans == 3

(* ------------------------- program constants --------------------------- *)
SlotMinutes == 15
MinutesPerHour == 60
MinutesPerDay == 1440
NULL == -1

Procs == {1, 2}
AdminId == 1
ClientIds == {2, 3}
UserIds == {AdminId} \cup ClientIds

UserRole(id) == IF id = AdminId THEN "admin" ELSE "client"

Identities == {[id |-> i, role |-> UserRole(i)] : i \in UserIds}

(* ------------------------- datetime arithmetic ------------------------- *)
Minute(v) == v.minutes % MinutesPerHour

ReplaceMinute(v, m) ==
    [v EXCEPT !.minutes = (v.minutes - Minute(v)) + m, !.second = 0, !.microsecond = 0]

\* datetime.replace(tzinfo=utc) for a naive value, astimezone(utc) otherwise:
\* the instant in UTC minutes (seconds are zero once the validator has run).
ToUtc(v) == IF ~v.tzinfo THEN v.minutes ELSE v.minutes - v.utcoffset

OpeningHour == 9
ClosingHour == 21
Now0 == OpeningHour * MinutesPerHour

(* ------------------------------ inputs --------------------------------- *)
ReqDays == {0, 1}
ReqZones == {<<FALSE, 0>>, <<TRUE, 0>>, <<TRUE, -8>>}

\* The datetime d days after day 0 at 09:m:s.u, naive or with a UTC offset.
DateTime(d, m, s, u, z) ==
    [minutes |-> d * MinutesPerDay + OpeningHour * MinutesPerHour + m,
     second |-> s, microsecond |-> u, tzinfo |-> z[1], utcoffset |-> z[2]]

\* 09:15 on each day in each zone, and on day 0 the same with seconds, with
\* microseconds, and five minutes later (with and without seconds).
SessionTimeInputs ==
    {DateTime(d, 15, 0, 0, z) : d \in ReqDays, z \in ReqZones} \cup
    {DateTime(0, 15, 30, 0, <<FALSE, 0>>), DateTime(0, 15, 0, 1, <<FALSE, 0>>),
     DateTime(0, 20, 0, 0, <<FALSE, 0>>), DateTime(0, 20, 30, 0, <<FALSE, 0>>)}

TrainerIdInputs == {1, 2, 3}
PlanIdInputs == 1 .. (MaxPlans + 1)
SessionIdInputs == 1 .. (MaxSessions + 1)
DurationInputs == {-1}
NameInputs == {"Shevchenko"}
\* The date of an availability query: a day number, NULL when the text does
\* not parse as YYYY-MM-DD.
DateInputs == ReqDays \cup {NULL}
\* The instants at which the clock is read: opening time, one slot later, and
\* the same two a day later.
ClockInstants == {Now0, Now0 + SlotMinutes, Now0 + MinutesPerDay,
                  Now0 + MinutesPerDay + SlotMinutes}

(* --------------------------- seeded database --------------------------- *)
SeedTrainers == (1 :> "Petrenko") @@ (2 :> "Kovalenko")

SeedSubscriptions ==
    (1 :> [subscription_type |-> "single", price |-> 200, duration_days |-> 1]) @@
    (2 :> [subscription_type |-> "month_classic", price |-> 1500, duration_days |-> 30])

NewUser == [subscription_type |-> "none", subscription_expires_at |-> NULL,
            subscription_active |-> FALSE]

NoLocal == [op |-> "none"]

\* last is the reply sent by the latest step, NoResponse when it sent none.
NoResponse == [op |-> "none", code |-> 0, detail |-> "none"]

Response(op, code, detail) == [op |-> op, code |-> code, detail |-> detail]

(* ------------------- SessionRequest.validate_session_time -------------- *)
ValidateSessionTime(v) ==
    IF Minute(v) % SlotMinutes # 0
    THEN [ok |-> FALSE, v |-> v]
    ELSE IF v.second # 0 \/ v.microsecond # 0
         THEN [ok |-> TRUE, v |-> ReplaceMinute(v, (Minute(v) \div SlotMinutes) * SlotMinutes)]
         ELSE [ok |-> TRUE, v |-> v]

\* Workers are interchangeable: a request goes to the first idle one.
FirstIdle(p) == pc[p] = "idle" /\ \A q \in Procs : q < p => pc[q] # "idle"

InFlight(op) == Cardinality({q \in Procs : pc[q] = op})

(* --------------------------- get_available_slots ----------------------- *)
\* generate_time_slots: the slot labels HH:MM as minutes of the day.
TimeSlots ==
    {hour * MinutesPerHour + minute :
        hour \in OpeningHour .. (ClosingHour - 1), minute \in {0, 15, 30, 45}}

\* The HH:MM of the trainer's booked sessions the query returns: those with
\* start_of_day <= session_time < end_of_day + 1 day (times are whole minutes).
BookedTimes(trainer_id, selected_date) ==
    {sessions[i].session_time % MinutesPerDay :
        i \in {k \in 1 .. Len(sessions) :
                 /\ sessions[k].trainer_id = trainer_id
                 /\ sessions[k].session_time >= selected_date * MinutesPerDay
                 /\ sessions[k].session_time < (selected_date + 2) * MinutesPerDay
                 /\ sessions[k].status = "booked"}}

SlotDatetime(selected_date, slot) == selected_date * MinutesPerDay + slot

\* The "available" field of the slot in the reply.
SlotAvailable(trainer_id, selected_date, slot) ==
    LET is_booked == slot \in BookedTimes(trainer_id, selected_date)
        is_past == SlotDatetime(selected_date, slot) < now
    IN  ~is_booked /\ ~is_past

\* The reply get_available_slots gives to (user, trainer_id, date): the error,
\* or the set of the slots it reports available.
AvailableSlotsOutcome(user, trainer_id, date) ==
    IF user.role # "client" THEN [code |-> 403, detail |-> "clients_only", available |-> {}]
    ELSE IF trainer_id \notin DOMAIN trainers
         THEN [code |-> 404, detail |-> "trainer_not_found", available |-> {}]
    ELSE IF date = NULL THEN [code |-> 400, detail |-> "bad_date_format", available |-> {}]
    ELSE IF date < now \div MinutesPerDay
         THEN [code |-> 400, detail |-> "date_in_past", available |-> {}]
    ELSE [code |-> 200, detail |-> "slots",
          available |-> {slot \in TimeSlots : SlotAvailable(trainer_id, date, slot)}]

GetAvailableSlots(p) ==
    /\ FirstIdle(p)
    /\ \E user \in Identities, trainer_id \in TrainerIdInputs, date \in DateInputs :
          LET out == AvailableSlotsOutcome(user, trainer_id, date) IN
          last' = Response("available_slots", out.code,
                           IF out.code = 200 THEN out.available ELSE out.detail)
    /\ UNCHANGED <<now, db, pc, local>>

(* ------------------------------ book_session --------------------------- *)
\* The conflict query without its status filter: completed sessions count.
ConflictingSessionAnyStatus(trainer_id, slot_start, slot_end) ==
    \E i \in 1 .. Len(sessions) :
        /\ sessions[i].trainer_id = trainer_id
        /\ sessions[i].session_time >= slot_start
        /\ sessions[i].session_time < slot_end

ConflictingSession(trainer_id, slot_start, slot_end) ==
    \E i \in 1 .. Len(sessions) :
        /\ sessions[i].trainer_id = trainer_id
        /\ sessions[i].session_time >= slot_start
        /\ sessions[i].session_time < slot_end
        /\ sessions[i].status = "booked"

\* book_session with the past-instant check moved before the entitlement checks.
BookOutcomePastFirst(user, trainer_id, raw) ==
    LET val == ValidateSessionTime(raw)
        v == val.v
        db_user == users[user.id]
        session_time_utc == ToUtc(v)
        Reply(code, detail) == [code |-> code, detail |-> detail, session_time |-> session_time_utc]
    IN  IF ~val.ok THEN Reply(422, "not_multiple_of_15")
        ELSE IF user.role # "client" THEN Reply(403, "clients_only")
        ELSE IF trainer_id \notin DOMAIN trainers THEN Reply(404, "trainer_not_found")
        ELSE IF session_time_utc < now THEN Reply(400, "past")
        ELSE IF ~db_user.subscription_active \/ db_user.subscription_expires_at = NULL
             THEN Reply(400, "no_subscription")
        ELSE IF db_user.subscription_expires_at < now THEN Reply(400, "subscription_expired")
        ELSE IF Minute(v) % SlotMinutes # 0 THEN Reply(400, "not_multiple_of_15")
        ELSE IF ConflictingSession(trainer_id, session_time_utc, session_time_utc + SlotMinutes)
             THEN Reply(409, "slot_taken")
        ELSE Reply(201, "booked")

\* The reply book_session gives to (user, trainer_id, raw session_time) in the
\* current database at the current instant, with the instant it would store.
BookOutcome(user, trainer_id, raw) ==
    LET val == ValidateSessionTime(raw)
        v == val.v
        db_user == users[user.id]
        session_time_utc == ToUtc(v)
        Reply(code, detail) == [code |-> code, detail |-> detail, session_time |-> session_time_utc]
    IN  IF ~val.ok THEN Reply(422, "not_multiple_of_15")
        ELSE IF user.role # "client" THEN Reply(403, "clients_only")
        ELSE IF trainer_id \notin DOMAIN trainers THEN Reply(404, "trainer_not_found")
        ELSE IF ~db_user.subscription_active \/ db_user.subscription_expires_at = NULL
             THEN Reply(400, "no_subscription")
        ELSE IF db_user.subscription_expires_at < now THEN Reply(400, "subscription_expired")
        ELSE IF session_time_utc < now THEN Reply(400, "past")
        ELSE IF Minute(v) % SlotMinutes # 0 THEN Reply(400, "not_multiple_of_15")
        ELSE IF ConflictingSession(trainer_id, session_time_utc, session_time_utc + SlotMinutes)
             THEN Reply(409, "slot_taken")
        ELSE Reply(201, "booked")

\* book_session writing the expiry back: a refusal for an expired entitlement
\* clears the stored flag.
BookCheckExpiring(p) ==
    /\ FirstIdle(p)
    /\ \E user \in Identities, trainer_id \in TrainerIdInputs, raw \in SessionTimeInputs :
          LET out == BookOutcome(user, trainer_id, raw) IN
          IF out.code = 201
          THEN /\ Len(sessions) + InFlight("book_commit") < MaxSessions
               /\ pc' = [pc EXCEPT ![p] = "book_commit"]
               /\ last' = NoResponse
               /\ local' = [local EXCEPT ![p] =
                              [op |-> "book", user_id |-> user.id, trainer_id |-> trainer_id,
                               session_time |-> out.session_time]]
               /\ UNCHANGED users
          ELSE /\ last' = Response("book", out.code, out.detail)
               /\ users' = IF out.detail = "subscription_expired"
                            THEN [users EXCEPT ![user.id].subscription_active = FALSE]
                            ELSE users
               /\ UNCHANGED <<pc, local>>
    /\ UNCHANGED <<now, trainers, subscriptions, sessions, visits, purchases>>

BookCheck(p) ==
    /\ FirstIdle(p)
    /\ \E user \in Identities, trainer_id \in TrainerIdInputs, raw \in SessionTimeInputs :
          LET out == BookOutcome(user, trainer_id, raw) IN
          IF out.code = 201
          THEN /\ Len(sessions) + InFlight("book_commit") < MaxSessions
               /\ pc' = [pc EXCEPT ![p] = "book_commit"]
               /\ last' = NoResponse
               /\ local' = [local EXCEPT ![p] =
                              [op |-> "book", user_id |-> user.id, trainer_id |-> trainer_id,
                               session_time |-> out.session_time]]
          ELSE /\ last' = Response("book", out.code, out.detail)
               /\ UNCHANGED <<pc, local>>
    /\ UNCHANGED <<now, db>>

BookCommit(p) ==
    /\ pc[p] = "book_commit"
    /\ sessions' = Append(sessions,
                      [trainer_id |-> local[p].trainer_id, client_id |-> local[p].user_id,
                       session_time |-> local[p].session_time, status |-> "booked"])
    /\ last' = Response("book", 201, "booked")
    /\ pc' = [pc EXCEPT ![p] = "idle"]
    /\ local' = [local EXCEPT ![p] = NoLocal]
    /\ UNCHANGED <<now, trainers, subscriptions, users, visits, purchases>>

(* -------------------------- purchase_subscription ---------------------- *)
\* A ledger that always counts from the purchase instant (no stacking).
NewExpiresAtFromNow(db_user, now_utc, duration_days) ==
    now_utc + duration_days * MinutesPerDay

NewExpiresAt(db_user, now_utc, duration_days) ==
    IF db_user.subscription_active /\ db_user.subscription_expires_at # NULL
    THEN IF db_user.subscription_expires_at > now_utc
         THEN db_user.subscription_expires_at + duration_days * MinutesPerDay
         ELSE now_utc + duration_days * MinutesPerDay
    ELSE now_utc + duration_days * MinutesPerDay

PurchaseCheck(p) ==
    /\ FirstIdle(p)
    /\ \E user \in Identities, subscription_id \in PlanIdInputs :
          IF user.role # "client"
          THEN /\ last' = Response("purchase", 403, "clients_only")
               /\ UNCHANGED <<pc, local>>
          ELSE IF subscription_id \notin DOMAIN subscriptions
          THEN /\ last' = Response("purchase", 404, "subscription_not_found")
               /\ UNCHANGED <<pc, local>>
          ELSE LET subscription == subscriptions[subscription_id] IN
               /\ Len(purchases) + InFlight("purchase_commit") < MaxPurchases
               /\ pc' = [pc EXCEPT ![p] = "purchase_commit"]
               /\ last' = NoResponse
               /\ local' = [local EXCEPT ![p] =
                              [op |-> "purchase", user_id |-> user.id,
                               subscription_id |-> subscription_id,
                               subscription_type |-> subscription.subscription_type,
                               price |-> subscription.price,
                               now_utc |-> now,
                               new_expires_at |->
                                   NewExpiresAt(users[user.id], now, subscription.duration_days)]]
    /\ UNCHANGED <<now, db>>

PurchaseCommit(p) ==
    /\ pc[p] = "purchase_commit"
    /\ users' = [users EXCEPT ![local[p].user_id] =
                    [subscription_type |-> local[p].subscription_type,
                     subscription_expires_at |-> local[p].new_expires_at,
                     subscription_active |-> TRUE]]
    /\ purchases' = Append(purchases,
                       [user_id |-> local[p].user_id,
                        subscription_id |-> local[p].subscription_id,
                        price |-> local[p].price,
                        purchased_at |-> local[p].now_utc])
    /\ last' = Response("purchase", 200, "purchased")
    /\ pc' = [pc EXCEPT ![p] = "idle"]
    /\ local' = [local EXCEPT ![p] = NoLocal]
    /\ UNCHANGED <<now, trainers, subscriptions, sessions, visits>>

(* ------------------------------ complete_session ----------------------- *)
\* complete_session without its status check (a repeat call succeeds again).
CompleteOutcomeIdempotent(user, session_id) ==
    IF user.role # "client" THEN [code |-> 403, detail |-> "clients_only"]
    ELSE IF ~(session_id \in 1 .. Len(sessions) /\ sessions[session_id].client_id = user.id)
         THEN [code |-> 404, detail |-> "session_not_found"]
    ELSE [code |-> 200, detail |-> "completed"]

\* complete_session looking the session up by its id only (no owner filter).
CompleteOutcomeAnyClient(user, session_id) ==
    IF user.role # "client" THEN [code |-> 403, detail |-> "clients_only"]
    ELSE IF ~(session_id \in 1 .. Len(sessions))
         THEN [code |-> 404, detail |-> "session_not_found"]
    ELSE IF sessions[session_id].status = "completed"
         THEN [code |-> 400, detail |-> "already_completed"]
    ELSE [code |-> 200, detail |-> "completed"]

\* The reply complete_session gives to (user, session_id) in the current database.
CompleteOutcome(user, session_id) ==
    IF user.role # "client" THEN [code |-> 403, detail |-> "clients_only"]
    ELSE IF ~(session_id \in 1 .. Len(sessions) /\ sessions[session_id].client_id = user.id)
         THEN [code |-> 404, detail |-> "session_not_found"]
    ELSE IF sessions[session_id].status = "completed"
         THEN [code |-> 400, detail |-> "already_completed"]
    ELSE [code |-> 200, detail |-> "completed"]

CompleteCheck(p) ==
    /\ FirstIdle(p)
    /\ \E user \in Identities, session_id \in SessionIdInputs :
          LET out == CompleteOutcome(user, session_id) IN
          IF out.code = 200
          THEN /\ pc' = [pc EXCEPT ![p] = "complete_commit"]
               /\ last' = NoResponse
               /\ local' = [local EXCEPT ![p] =
                              [op |-> "complete", user_id |-> user.id, session_id |-> session_id,
                               trainer_id |-> sessions[session_id].trainer_id]]
          ELSE /\ last' = Response("complete", out.code, out.detail)
               /\ UNCHANGED <<pc, local>>
    /\ UNCHANGED <<now, db>>

TrainerNameOrUnknown(trainer_id) ==
    IF trainer_id \in DOMAIN trainers THEN trainers[trainer_id] ELSE "Unknown trainer"

\* complete_session flipping the status instead of setting it.
CompleteCommitToggle(p) ==
    /\ pc[p] = "complete_commit"
    /\ sessions' = [sessions EXCEPT ![local[p].session_id].status =
                       IF @ = "booked" THEN "completed" ELSE "booked"]
    /\ visits' = Append(visits,
                    [user_id |-> local[p].user_id, trainer_id |-> local[p].trainer_id,
                     session_id |-> local[p].session_id,
                     trainer_name |-> TrainerNameOrUnknown(local[p].trainer_id),
                     visit_date |-> now])
    /\ last' = Response("complete", 200, "completed")
    /\ pc' = [pc EXCEPT ![p] = "idle"]
    /\ local' = [local EXCEPT ![p] = NoLocal]
    /\ UNCHANGED <<now, trainers, subscriptions, users, purchases>>

CompleteCommit(p) ==
    /\ pc[p] = "complete_commit"
    /\ sessions' = [sessions EXCEPT ![local[p].session_id].status = "completed"]
    /\ visits' = Append(visits,
                    [user_id |-> local[p].user_id, trainer_id |-> local[p].trainer_id,
                     session_id |-> local[p].session_id,
                     trainer_name |-> TrainerNameOrUnknown(local[p].trainer_id),
                     visit_date |-> now])
    /\ last' = Response("complete", 200, "completed")
    /\ pc' = [pc EXCEPT ![p] = "idle"]
    /\ local' = [local EXCEPT ![p] = NoLocal]
    /\ UNCHANGED <<now, trainers, subscriptions, users, purchases>>

(* ------------------------- admin: create_subscription ------------------ *)
NextPlanId == IF DOMAIN subscriptions = {} THEN 1
              ELSE 1 + CHOOSE m \in DOMAIN subscriptions : \A k \in DOMAIN subscriptions : k <= m

CreateSubscription(p) ==
    /\ FirstIdle(p)
    /\ \E user \in Identities, duration_days \in DurationInputs :
          IF user.role # "admin"
          THEN /\ last' = Response("create_subscription", 403, "admin_only")
               /\ UNCHANGED subscriptions
          ELSE /\ Cardinality(DOMAIN subscriptions) < MaxPlans
               /\ subscriptions' = subscriptions @@
                     (NextPlanId :> [subscription_type |-> "custom", price |-> 100,
                                     duration_days |-> duration_days])
               /\ last' = Response("create_subscription", 201, "created")
    /\ UNCHANGED <<now, trainers, users, sessions, visits, purchases, pc, local>>

(* -------------------- admin: update_trainer, delete_trainer ------------ *)
\* update_trainer with the new name copied into the trainer's VisitHistory.
UpdateTrainerRenamingVisits(p) ==
    /\ FirstIdle(p)
    /\ \E user \in Identities, trainer_id \in TrainerIdInputs, name \in NameInputs :
          IF user.role # "admin"
          THEN /\ last' = Response("update_trainer", 403, "admin_only")
               /\ UNCHANGED <<trainers, visits>>
          ELSE IF trainer_id \notin DOMAIN trainers
          THEN /\ last' = Response("update_trainer", 404, "trainer_not_found")
               /\ UNCHANGED <<trainers, visits>>
          ELSE /\ trainers' = [trainers EXCEPT ![trainer_id] = name]
               /\ visits' = [k \in 1 .. Len(visits) |->
                                IF visits[k].trainer_id = trainer_id
                                THEN [visits[k] EXCEPT !.trainer_name = name]
                                ELSE visits[k]]
               /\ last' = Response("update_trainer", 200, "updated")
    /\ UNCHANGED <<now, subscriptions, users, sessions, purchases, pc, local>>

UpdateTrainer(p) ==
    /\ FirstIdle(p)
    /\ \E user \in Identities, trainer_id \in TrainerIdInputs, name \in NameInputs :
          IF user.role # "admin"
          THEN /\ last' = Response("update_trainer", 403, "admin_only")
               /\ UNCHANGED trainers
          ELSE IF trainer_id \notin DOMAIN trainers
          THEN /\ last' = Response("update_trainer", 404, "trainer_not_found")
               /\ UNCHANGED trainers
          ELSE /\ trainers' = [trainers EXCEPT ![trainer_id] = name]
               /\ last' = Response("update_trainer", 200, "updated")
    /\ UNCHANGED <<now, subscriptions, users, sessions, visits, purchases, pc, local>>

\* db.delete(trainer): the trainer's sessions are children of the "sessions"
\* relationship without a delete cascade, so the flush sets their trainer_id to
\* NULL.  VisitHistory.trainer_id is a foreign key with no relationship: a
\* store that enforces it refuses the commit while a record refers to the
\* trainer, a store that does not enforce it deletes the row.
DeleteTrainer(p) ==
    /\ FirstIdle(p)
    /\ \E user \in Identities, trainer_id \in TrainerIdInputs :
          IF user.role # "admin"
          THEN /\ last' = Response("delete_trainer", 403, "admin_only")
               /\ UNCHANGED <<trainers, sessions>>
          ELSE IF trainer_id \notin DOMAIN trainers
          THEN /\ last' = Response("delete_trainer", 404, "trainer_not_found")
               /\ UNCHANGED <<trainers, sessions>>
          ELSE \/ /\ trainers' = [t \in DOMAIN trainers \ {trainer_id} |-> trainers[t]]
                  /\ sessions' = [k \in 1 .. Len(sessions) |->
                                    IF sessions[k].trainer_id = trainer_id
                                    THEN [sessions[k] EXCEPT !.trainer_id = NULL]
                                    ELSE sessions[k]]
                  /\ last' = Response("delete_trainer", 204, "deleted")
               \/ /\ \E k \in 1 .. Len(visits) : visits[k].trainer_id = trainer_id
                  /\ last' = Response("delete_trainer", 500, "integrity_error")
                  /\ UNCHANGED <<trainers, sessions>>
    /\ UNCHANGED <<now, subscriptions, users, visits, purchases, pc, local>>

(* --------------------------------- clock ------------------------------- *)
Tick ==
    /\ \E t \in ClockInstants : t > now /\ now' = t
    /\ last' = NoResponse
    /\ UNCHANGED <<db, pc, local>>

(* ------------------------------ specification -------------------------- *)
Init ==
    /\ now = Now0
    /\ trainers = SeedTrainers
    /\ subscriptions = SeedSubscriptions
    /\ users = [u \in UserIds |-> NewUser]
    /\ sessions = << >>
    /\ visits = << >>
    /\ purchases = << >>
    /\ pc = [p \in Procs |-> "idle"]
    /\ local = [p \in Procs |-> NoLocal]
    /\ last = NoResponse

AllIdle == \A q \in Procs : pc[q] = "idle"

Next ==
    \/ \E p \in Procs : BookCheck(p)
    \/ \E p \in Procs : BookCommit(p)
    \/ \E p \in Procs : PurchaseCheck(p)
    \/ \E p \in Procs : PurchaseCommit(p)
    \/ \E p \in Procs : CompleteCheck(p)
    \/ \E p \in Procs : CompleteCommit(p)
    \/ \E p \in Procs : CreateSubscription(p)
    \/ \E p \in Procs : GetAvailableSlots(p)
    \/ \E p \in Procs : UpdateTrainer(p)
    \/ \E p \in Procs : DeleteTrainer(p)
    \/ Tick

Spec == Init /\ [][Next]_vars

(* ---------------------- the subscription ledger ------------------------ *)
PurchaseNext ==
    \/ \E p \in Procs : PurchaseCheck(p)
    \/ \E p \in Procs : PurchaseCommit(p)
    \/ \E p \in Procs : CreateSubscription(p)
    \/ Tick

PurchaseSpec == Init /\ [][PurchaseNext]_vars

\* One request at a time: a request starts only when no other is in flight.
PurchaseSerialNext ==
    \/ \E p \in Procs : AllIdle /\ PurchaseCheck(p)
    \/ \E p \in Procs : PurchaseCommit(p)
    \/ \E p \in Procs : AllIdle /\ CreateSubscription(p)
    \/ Tick

PurchaseSerialSpec == Init /\ [][PurchaseSerialNext]_vars

(* -------------------------- the session engine ------------------------- *)
\* The database right after the first client bought the one-day plan at
\* opening time (Init, then PurchaseCheck and PurchaseCommit).
InitEntitled ==
    /\ now = Now0
    /\ trainers = SeedTrainers
    /\ subscriptions = SeedSubscriptions
    /\ users = [u \in UserIds |->
                  IF u = 2
                  THEN [subscription_type |-> "single",
                        subscription_expires_at |-> NewExpiresAt(NewUser, Now0, 1),
                        subscription_active |-> TRUE]
                  ELSE NewUser]
    /\ sessions = << >>
    /\ visits = << >>
    /\ purchases = << [user_id |-> 2, subscription_id |-> 1, price |-> 200,
                       purchased_at |-> Now0] >>
    /\ pc = [p \in Procs |-> "idle"]
    /\ local = [p \in Procs |-> NoLocal]
    /\ last = NoResponse

\* Requests racing each other: the steps of the workers interleave freely
\* while the clock stands still.
SessionRaceNext ==
    \/ \E p \in Procs : BookCheck(p)
    \/ \E p \in Procs : BookCommit(p)
    \/ \E p \in Procs : CompleteCheck(p)
    \/ \E p \in Procs : CompleteCommit(p)

SessionRaceSpec == InitEntitled /\ [][SessionRaceNext]_vars

SessionSerialNext ==
    \/ \E p \in Procs : AllIdle /\ BookCheck(p)
    \/ \E p \in Procs : BookCommit(p)
    \/ \E p \in Procs : AllIdle /\ CompleteCheck(p)
    \/ \E p \in Procs : CompleteCommit(p)
    \/ Tick

SessionSerialSpec == InitEntitled /\ [][SessionSerialNext]_vars

(* ------------------------ entitlement and sessions --------------------- *)
\* The database a day and a quarter of an hour after the first client bought
\* the one-day plan at opening time: that entitlement has run out.
InitExpired ==
    /\ now = Now0 + MinutesPerDay + SlotMinutes
    /\ trainers = SeedTrainers
    /\ subscriptions = SeedSubscriptions
    /\ users = [u \in UserIds |->
                  IF u = 2
                  THEN [subscription_type |-> "single",
                        subscription_expires_at |-> NewExpiresAt(NewUser, Now0, 1),
                        subscription_active |-> TRUE]
                  ELSE NewUser]
    /\ sessions = << >>
    /\ visits = << >>
    /\ purchases = << [user_id |-> 2, subscription_id |-> 1, price |-> 200,
                       purchased_at |-> Now0] >>
    /\ pc = [p \in Procs |-> "idle"]
    /\ local = [p \in Procs |-> NoLocal]
    /\ last = NoResponse

\* Purchases, bookings, completions and availability queries of the clients,
\* one request at a time, at that instant.
ClientSerialNext ==
    \/ \E p \in Procs : AllIdle /\ PurchaseCheck(p)
    \/ \E p \in Procs : PurchaseCommit(p)
    \/ \E p \in Procs : AllIdle /\ BookCheck(p)
    \/ \E p \in Procs : BookCommit(p)
    \/ \E p \in Procs : AllIdle /\ CompleteCheck(p)
    \/ \E p \in Procs : CompleteCommit(p)
    \/ \E p \in Procs : AllIdle /\ GetAvailableSlots(p)

ClientSerialSpec == InitExpired /\ [][ClientSerialNext]_vars

(* --------------------- sessions and the trainer catalog ---------------- *)
\* Bookings and completions of the clients and renames and deletions of
\* trainers by the admin, one request at a time, while the clock stands still.
TrainerAdminNext ==
    \/ \E p \in Procs : AllIdle /\ BookCheck(p)
    \/ \E p \in Procs : BookCommit(p)
    \/ \E p \in Procs : AllIdle /\ CompleteCheck(p)
    \/ \E p \in Procs : CompleteCommit(p)
    \/ \E p \in Procs : AllIdle /\ UpdateTrainer(p)
    \/ \E p \in Procs : AllIdle /\ DeleteTrainer(p)

TrainerAdminSpec == InitEntitled /\ [][TrainerAdminNext]_vars

(* ======================================================================= *)
(*                               properties                                *)
(* ======================================================================= *)
Booked(i) == sessions[i].status = "booked"

VisitCount(session_id) ==
    Cardinality({k \in 1 .. Len(visits) : visits[k].session_id = session_id})

Identity(id) == [id |-> id, role |-> UserRole(id)]

(* ---------------------------------- C1 --------------------------------- *)
\* C1: of the BookSession calls for one trainer and one identical instant that
\* run concurrently exactly one succeeds (the other gets 409 Conflict), so
\* a trainer never has two booked Sessions with the same session_time.
C1_OneBookingPerInstant ==
    \A i, j \in 1 .. Len(sessions) :
        (/\ i # j
         /\ sessions[i].trainer_id = sessions[j].trainer_id
         /\ sessions[i].session_time = sessions[j].session_time
         /\ Booked(i))
        => ~Booked(j)

(* ---------------------------------- C2 --------------------------------- *)
Window(t) == t \div SlotMinutes

\* C2: for every trainer and every quarter-hour window at most one booked
\* Session has its session_time inside the window.
C2_OneBookedPerWindow ==
    \A i, j \in 1 .. Len(sessions) :
        (/\ i # j
         /\ sessions[i].trainer_id = sessions[j].trainer_id
         /\ Booked(i) /\ Booked(j))
        => Window(sessions[i].session_time) # Window(sessions[j].session_time)

(* ---------------------------------- C3 --------------------------------- *)
\* The entitlement that results from applying the purchase records k.. of user u,
\* one after the other, to the entitlement ent.
RECURSIVE StackFrom(_, _, _)
StackFrom(u, k, ent) ==
    IF k > Len(purchases) THEN ent
    ELSE IF purchases[k].user_id # u THEN StackFrom(u, k + 1, ent)
    ELSE LET plan == subscriptions[purchases[k].subscription_id]
             at == purchases[k].purchased_at
             base == IF ent.subscription_active /\ ent.subscription_expires_at # NULL
                        /\ ent.subscription_expires_at > at
                     THEN ent.subscription_expires_at ELSE at
         IN  StackFrom(u, k + 1,
                 [subscription_type |-> plan.subscription_type,
                  subscription_expires_at |-> base + plan.duration_days * MinutesPerDay,
                  subscription_active |-> TRUE])

\* C3: every purchase of a user is applied: the user's entitlement is the one
\* obtained by stacking all of the user's PurchaseRecords (base + D1 + D2 for
\* two purchases), also when the purchases ran concurrently.
C3_AllPurchasesStacked ==
    \A u \in ClientIds : users[u] = StackFrom(u, 1, NewUser)

(* ---------------------------------- C4 --------------------------------- *)
\* C4: a successful PurchaseSubscription of a plan of duration D sets
\* expires_at = base + D days, base being the user's expires_at if the
\* entitlement is active and expires strictly after now, and now otherwise;
\* it sets active and the plan's type.
C4_PurchaseExtendsFromBase ==
    [][\A p \in Procs :
          (pc[p] = "purchase_commit" /\ pc'[p] = "idle") =>
             LET u == local[p].user_id
                 plan == subscriptions[local[p].subscription_id]
                 at == local[p].now_utc
                 before == users[u]
                 base == IF before.subscription_active
                            /\ before.subscription_expires_at # NULL
                            /\ before.subscription_expires_at > at
                         THEN before.subscription_expires_at ELSE at
             IN  users'[u] = [subscription_type |-> plan.subscription_type,
                              subscription_expires_at |->
                                  base + plan.duration_days * MinutesPerDay,
                              subscription_active |-> TRUE]]_vars

\* A second purchase by a user whose entitlement was still running has been
\* answered: the expiry is the first purchase's instant plus both durations.
C4_Witness ==
    /\ last = Response("purchase", 200, "purchased")
    /\ Len(purchases) = 2
    /\ purchases[1].user_id = purchases[2].user_id
    /\ purchases[1].subscription_id = 1 /\ purchases[2].subscription_id = 2
    /\ purchases[2].purchased_at > purchases[1].purchased_at
    /\ users[purchases[1].user_id].subscription_expires_at =
          purchases[1].purchased_at
            + (subscriptions[1].duration_days + subscriptions[2].duration_days) * MinutesPerDay
    /\ users[purchases[1].user_id].subscription_type = "month_classic"

(* ---------------------------------- C5 --------------------------------- *)
\* C5: no step ever decreases a user's expires_at.
C5_ExpiryNeverDecreases ==
    [][\A u \in UserIds :
          users[u].subscription_expires_at # NULL =>
             users'[u].subscription_expires_at >= users[u].subscription_expires_at]_vars

(* ---------------------------------- C6 --------------------------------- *)
\* C6: the owner's first CompleteSession succeeds, sets completed and leaves
\* exactly one VisitHistory record of the session; on a completed session the
\* owner's call is answered 400 (already completed), and a completed session
\* has exactly one VisitHistory record, a booked one none.
C6_SecondCompleteRejected ==
    /\ [](\A s \in 1 .. Len(sessions) :
            IF sessions[s].status = "completed"
            THEN /\ CompleteOutcome(Identity(sessions[s].client_id), s)
                      = [code |-> 400, detail |-> "already_completed"]
                 /\ VisitCount(s) = 1
            ELSE /\ CompleteOutcome(Identity(sessions[s].client_id), s).code = 200
                 /\ VisitCount(s) = 0)
    /\ [][\A p \in Procs :
            (pc[p] = "complete_commit" /\ pc'[p] = "idle") =>
               /\ sessions[local[p].session_id].status = "booked"
               /\ sessions'[local[p].session_id].status = "completed"
               /\ Len(visits') = Len(visits) + 1]_vars

\* The owner's second call on a completed session has been answered 400.
C6_Witness ==
    /\ last = Response("complete", 400, "already_completed")
    /\ \E s \in 1 .. Len(sessions) :
          sessions[s].status = "completed" /\ VisitCount(s) = 1

(* ---------------------------------- C7 --------------------------------- *)
\* C7: a Session has exactly one VisitHistory record if it is completed and
\* none if it is booked, under any interleaving of CompleteSession calls.
C7_OneVisitPerCompletion ==
    \A s \in 1 .. Len(sessions) :
        VisitCount(s) = IF sessions[s].status = "completed" THEN 1 ELSE 0

(* ---------------------------------- C8 --------------------------------- *)
\* What a request asks for, read off the raw datetime of the request.
\* The request's instant lies before now (now is a whole minute).
Past(raw) == ToUtc(raw) < now

ExactMultiple(raw) ==
    ToUtc(raw) % SlotMinutes = 0 /\ raw.second = 0 /\ raw.microsecond = 0

EntitlementUsable(id) ==
    /\ users[id].subscription_active
    /\ users[id].subscription_expires_at # NULL
    /\ users[id].subscription_expires_at > now

\* The precondition a reply of book_session reports as violated.
Kind(reply) ==
    CASE reply.detail = "clients_only" -> "role"
      [] reply.detail = "trainer_not_found" -> "trainer"
      [] reply.detail = "past" -> "past"
      [] reply.detail = "not_multiple_of_15" -> "alignment"
      [] reply.detail \in {"no_subscription", "subscription_expired"} -> "entitlement"
      [] reply.detail = "slot_taken" -> "conflict"
      [] OTHER -> "none"

HandledInstant(raw) == ToUtc([raw EXCEPT !.second = 0, !.microsecond = 0])

C9_NonAlignedRejected ==
    \A user \in Identities, trainer_id \in TrainerIdInputs, raw \in SessionTimeInputs :
        ~ExactMultiple(raw) => BookOutcome(user, trainer_id, raw).code # 201

(* ---------------------------------- C10 -------------------------------- *)
\* C10: the stored session_time of every Session is on a quarter hour.
C10_SessionTimeQuantized ==
    \A i \in 1 .. Len(sessions) : sessions[i].session_time % SlotMinutes = 0

(* ---------------------------------- C11 -------------------------------- *)
\* C11: BookSession succeeds only for a caller whose entitlement is usable
\* (active, expires_at strictly after now); a client's valid request for a
\* known trainer without a usable entitlement is answered 400, with the
\* no-subscription message when the entitlement is inactive or has no expiry
\* and with the expired message otherwise.
C11_BookingNeedsUsableEntitlement ==
    \A c \in ClientIds, trainer_id \in DOMAIN trainers, raw \in SessionTimeInputs :
        LET out == BookOutcome(Identity(c), trainer_id, raw) IN
        /\ out.code = 201 => EntitlementUsable(c)
        /\ (ValidateSessionTime(raw).ok /\ ~EntitlementUsable(c)) =>
              /\ out.code = 400
              /\ out.detail =
                    IF ~users[c].subscription_active
                          \/ users[c].subscription_expires_at = NULL
                    THEN "no_subscription" ELSE "subscription_expired"

(* ---------------------------------- C12 -------------------------------- *)
\* C12: BookSession accepts an instant only if it is strictly after now: a
\* request whose instant is before or equal to now is not booked, and every
\* Session a commit creates has a session_time after its creation instant.
C12_OnlyFutureInstants ==
    /\ [](\A user \in Identities, trainer_id \in TrainerIdInputs, raw \in SessionTimeInputs :
             ToUtc(raw) <= now => BookOutcome(user, trainer_id, raw).code # 201)
    /\ [][\A p \in Procs :
             (pc[p] = "book_commit" /\ pc'[p] = "idle") =>
                sessions'[Len(sessions')].session_time > now]_vars

(* ---------------------------------- C13 -------------------------------- *)
\* C13: for a known trainer, an accepted date and a generated slot,
\* ListAvailability reports the slot unavailable exactly when a booked Session
\* of that trainer has its session_time in [slot instant, slot instant + 15
\* min) or the slot instant is before now; sessions of other trainers,
\* completed sessions and sessions on another date leave it available.
C13_UnavailableIffBookedOrPast ==
    \A c \in ClientIds, trainer_id \in DOMAIN trainers, date \in ReqDays :
        LET out == AvailableSlotsOutcome(Identity(c), trainer_id, date) IN
        out.code = 200 =>
           \A slot \in TimeSlots :
               (slot \notin out.available) <=>
                   \/ \E i \in 1 .. Len(sessions) :
                         /\ Booked(i)
                         /\ sessions[i].trainer_id = trainer_id
                         /\ sessions[i].session_time - SlotDatetime(date, slot)
                               \in 0 .. (SlotMinutes - 1)
                   \/ SlotDatetime(date, slot) < now

(* ---------------------------------- C14 -------------------------------- *)
\* C14: a user's entitlement (active, expires_at, type) changes only in the
\* commit of that user's PurchaseSubscription, which leaves active true; no
\* step sets active from true to false, and BookSession (also when it fails
\* because the entitlement has expired), CompleteSession and ListAvailability
\* leave it unchanged.
C14_ActiveSetOnlyByPurchase ==
    [][\A u \in UserIds :
          /\ users[u].subscription_active => users'[u].subscription_active
          /\ users'[u] # users[u] =>
                /\ users'[u].subscription_active
                /\ \E p \in Procs :
                      /\ pc[p] = "purchase_commit" /\ pc'[p] = "idle"
                      /\ local[p].user_id = u]_vars

\* A booking has just been refused because the entitlement has expired, and
\* the stored flag of that client is still true, while another client's flag
\* has been set by a purchase.
C14_Witness ==
    /\ last = Response("book", 400, "subscription_expired")
    /\ \E c \in ClientIds :
          /\ users[c].subscription_active
          /\ users[c].subscription_expires_at < now
    /\ \E c \in ClientIds :
          /\ users[c].subscription_active
          /\ users[c].subscription_expires_at > now
          /\ \E k \in 1 .. Len(purchases) :
                purchases[k].user_id = c /\ purchases[k].purchased_at = now

(* ---------------------------------- C15 -------------------------------- *)
\* C15: every Session is created booked, its status is always booked or
\* completed, the only change of a status is booked -> completed, and a
\* completed Session stays completed, whatever the order of the steps.
C15_StatusMachine ==
    /\ [](\A i \in 1 .. Len(sessions) : sessions[i].status \in {"booked", "completed"})
    /\ [][/\ Len(sessions') >= Len(sessions)
          /\ \A i \in 1 .. Len(sessions') :
                IF i > Len(sessions)
                THEN sessions'[i].status = "booked"
                ELSE \/ sessions'[i].status = sessions[i].status
                     \/ /\ sessions[i].status = "booked"
                        /\ sessions'[i].status = "completed"]_vars

\* Two completions of one session raced and both have committed, the later
\* one on the already completed session, and a booking was made after them.
C15_Witness ==
    /\ Len(sessions) = 2
    /\ sessions[1].status = "completed" /\ VisitCount(1) = 2
    /\ sessions[2].status = "booked"
    /\ last = Response("book", 201, "booked")

(* ---------------------------------- C16 -------------------------------- *)
OwnedBy(user, session_id) ==
    session_id \in 1 .. Len(sessions) /\ sessions[session_id].client_id = user.id

\* C16 as stated: CompleteSession by any identity that is not the client of
\* the session, or with an unknown session id, is answered 404 NotFound.
C16_NotOwnerNotFound ==
    \A user \in Identities, session_id \in SessionIdInputs :
        ~OwnedBy(user, session_id) => CompleteOutcome(user, session_id).code = 404

\* C16 amended: CompleteSession for a session that does not exist or is not
\* the caller's is answered 403 when the caller is not a client and 404 when
\* the caller is a client; a refused call changes no table, and the call that
\* completes a session is the call of the client who booked it, whose id the
\* new VisitHistory record carries.
C16_OwnerOnly ==
    /\ [](\A user \in Identities, session_id \in SessionIdInputs :
             ~OwnedBy(user, session_id) =>
                CompleteOutcome(user, session_id).code =
                    IF user.role # "client" THEN 403 ELSE 404)
    /\ [][/\ (last'.op = "complete" /\ last'.code # 200) => UNCHANGED db
          /\ \A p \in Procs :
                (pc[p] = "complete_commit" /\ pc'[p] = "idle") =>
                   /\ local[p].user_id = sessions[local[p].session_id].client_id
                   /\ visits'[Len(visits')].user_id
                         = sessions[local[p].session_id].client_id]_vars

\* Another client's call on a booked session has just been answered 404: the
\* session is still booked and has no VisitHistory record.
C16_Witness ==
    /\ last = Response("complete", 404, "session_not_found")
    /\ Len(sessions) = MaxSessions
    /\ \A s \in 1 .. Len(sessions) : Booked(s) /\ VisitCount(s) = 0
    /\ \E c \in ClientIds : \A s \in 1 .. Len(sessions) : sessions[s].client_id # c

(* ---------------------------------- C17 -------------------------------- *)
\* C17: VisitHistory is append-only with a snapshot name: no step modifies or
\* removes a record (bookings, completions, a rename or a deletion of the
\* trainer), and the record a completion appends carries the name the
\* session's trainer has at that step.
C17_VisitsAppendOnly ==
    [][/\ Len(visits') >= Len(visits)
       /\ \A k \in 1 .. Len(visits) : visits'[k] = visits[k]
       /\ \A p \in Procs :
             (pc[p] = "complete_commit" /\ pc'[p] = "idle") =>
                /\ Len(visits') = Len(visits) + 1
                /\ LET t == sessions[local[p].session_id].trainer_id IN
                   t \in DOMAIN trainers =>
                      visits'[Len(visits')].trainer_name = trainers[t]]_vars

\* The trainer of a VisitHistory record has been renamed, or deleted, after
\* the completion: the record still carries the seeded name.
C17_Witness ==
    /\ last.op \in {"update_trainer", "delete_trainer"}
    /\ last.code \in {200, 204}
    /\ \E k \in 1 .. Len(visits) :
          /\ visits[k].trainer_id \in DOMAIN SeedTrainers
          /\ visits[k].trainer_name = SeedTrainers[visits[k].trainer_id]
          /\ \/ visits[k].trainer_id \notin DOMAIN trainers
             \/ trainers[visits[k].trainer_id] # visits[k].trainer_name

(* ---------------------------------- C18 -------------------------------- *)
\* C18: only booked sessions occupy a slot and a completion does not wait for
\* the session's time: the owner's CompleteSession of a booked session whose
\* time is still ahead succeeds, and once a session is completed a request of
\* an entitled client for the same trainer and the same instant, not in the
\* past and with no booked session of the trainer in its window, is booked.
C18_CompletedFreesSlot ==
    \A s \in 1 .. Len(sessions) :
        /\ (Booked(s) /\ sessions[s].session_time > now) =>
              CompleteOutcome(Identity(sessions[s].client_id), s).code = 200
        /\ sessions[s].status = "completed" =>
              \A c \in ClientIds, raw \in SessionTimeInputs :
                  (/\ ValidateSessionTime(raw).ok
                   /\ HandledInstant(raw) = sessions[s].session_time
                   /\ HandledInstant(raw) >= now
                   /\ users[c].subscription_active
                   /\ users[c].subscription_expires_at # NULL
                   /\ users[c].subscription_expires_at >= now
                   /\ sessions[s].trainer_id \in DOMAIN trainers
                   /\ ~\E i \in 1 .. Len(sessions) :
                          /\ Booked(i)
                          /\ sessions[i].trainer_id = sessions[s].trainer_id
                          /\ sessions[i].session_time - HandledInstant(raw)
                                \in 0 .. (SlotMinutes - 1))
                  => BookOutcome(Identity(c), sessions[s].trainer_id, raw).code = 201

\* A session was completed before its time and the same trainer and instant
\* have been booked again: one completed and one booked Session share them.
C18_Witness ==
    /\ last = Response("book", 201, "booked")
    /\ Len(sessions) = 2
    /\ sessions[1].status = "completed" /\ VisitCount(1) = 1
    /\ Booked(2)
    /\ sessions[2].trainer_id = sessions[1].trainer_id
    /\ sessions[2].session_time = sessions[1].session_time
    /\ sessions[1].session_time > now

(* ---------------------------------- C19 -------------------------------- *)
\* The request for the instant of a slot of a date (UTC, no seconds).
SlotRequest(date, slot) ==
    [minutes |-> SlotDatetime(date, slot), second |-> 0, microsecond |-> 0,
     tzinfo |-> TRUE, utcoffset |-> 0]

\* C19: availability and booking agree: in every state a slot that
\* ListAvailability reports available can be booked by a client with a usable
\* entitlement (the request for its instant is answered 201, not Conflict and
\* not the past-instant error), and right after the commit of a booking
\* ListAvailability reports the slot of the new session unavailable.
C19_AvailabilityAgreesWithBooking ==
    /\ [](\A c \in ClientIds, trainer_id \in DOMAIN trainers, date \in ReqDays :
             LET out == AvailableSlotsOutcome(Identity(c), trainer_id, date) IN
             (out.code = 200 /\ EntitlementUsable(c)) =>
                \A slot \in out.available :
                    BookOutcome(Identity(c), trainer_id, SlotRequest(date, slot)).code = 201)
    /\ [][(\E p \in Procs : pc[p] = "book_commit" /\ pc'[p] = "idle") =>
             (LET new == sessions[Len(sessions)] IN
              (new.session_time % MinutesPerDay) \in TimeSlots =>
                 ~SlotAvailable(new.trainer_id, new.session_time \div MinutesPerDay,
                                new.session_time % MinutesPerDay))']_vars

====
